---------------------------- MODULE Spec2Model ----------------------------
(***************************************************************************)
(* Model of CIS261PayrollbyDateChriswalker.py: the prompt/quit-confirmation *)
(* state machine, the record store (employees.txt) and the report scan.     *)
(*                                                                          *)
(* Text is modelled as a sequence of one-character strings, so that         *)
(* strip(), lower(), split("|"), float() and str() are computed character   *)
(* by character.  A Python float is modelled as an exact decimal            *)
(* [kind, n, e] meaning n * 10^(-e) (kind "fin"), or a not-a-number /       *)
(* infinity (kinds "nan", "inf", "-inf"); binary rounding is not modelled,  *)
(* and the numeric inputs drawn below are ones whose float arithmetic is    *)
(* exact to the digits str() prints.                                        *)
(***************************************************************************)
EXTENDS Integers, Sequences, FiniteSets, TLC

(***************************************************************************)
(* Bounds of the model.                                                     *)
(***************************************************************************)
\* lines the data file may hold before the program starts
MaxInitLines == 2
\* hours and rates of the pay calculation are drawn from 0..MaxPayUnits and
\* from their tenths
MaxPayUnits == 3
\* records the program may append during one run: past it, a round of entry
\* can still be started and abandoned but not completed
MaxAppend == 1

(***************************************************************************)
(* Text primitives (str.strip, str.lower, str.split, string equality).      *)
(***************************************************************************)
UpperChars == <<"A","B","C","D","E","F","G","H","I","J","K","L","M",
                "N","O","P","Q","R","S","T","U","V","W","X","Y","Z">>
LowerChars == <<"a","b","c","d","e","f","g","h","i","j","k","l","m",
                "n","o","p","q","r","s","t","u","v","w","x","y","z">>
DigitChars == <<"0","1","2","3","4","5","6","7","8","9">>

IsSpace(c) == c \in {" ", "\t", "\r", "\n"}

IsDigit(c) == \E i \in 1..10 : DigitChars[i] = c

DigitVal(c) == (CHOOSE i \in 1..10 : DigitChars[i] = c) - 1

LowerChar(c) ==
    IF \E i \in 1..26 : UpperChars[i] = c
    THEN LowerChars[CHOOSE i \in 1..26 : UpperChars[i] = c]
    ELSE c

\* str.lower()
Lower(s) == [i \in 1..Len(s) |-> LowerChar(s[i])]

RECURSIVE LStrip(_)
LStrip(s) == IF s # <<>> /\ IsSpace(Head(s)) THEN LStrip(Tail(s)) ELSE s

RECURSIVE RStrip(_)
RStrip(s) ==
    IF s # <<>> /\ IsSpace(s[Len(s)]) THEN RStrip(SubSeq(s, 1, Len(s) - 1)) ELSE s

\* str.strip()
Strip(s) == RStrip(LStrip(s))

\* str.split(sep) for a one-character separator: always at least one part
RECURSIVE SplitFrom(_, _, _, _)
SplitFrom(s, sep, i, acc) ==
    IF i > Len(s) THEN <<acc>>
    ELSE IF s[i] = sep THEN <<acc>> \o SplitFrom(s, sep, i + 1, <<>>)
    ELSE SplitFrom(s, sep, i + 1, Append(acc, s[i]))

Split(s, sep) == SplitFrom(s, sep, 1, <<>>)

\* the digits of a natural number, most significant first
RECURSIVE NatStr(_)
NatStr(n) ==
    IF n < 10 THEN <<DigitChars[n + 1]>>
    ELSE Append(NatStr(n \div 10), DigitChars[(n % 10) + 1])

\* the value of a non-empty string of digits
RECURSIVE DigitsVal(_)
DigitsVal(s) ==
    IF s = <<>> THEN 0
    ELSE 10 * DigitsVal(SubSeq(s, 1, Len(s) - 1)) + DigitVal(s[Len(s)])

AllDigits(s) == \A i \in 1..Len(s) : IsDigit(s[i])

RECURSIVE Pow10(_)
Pow10(k) == IF k = 0 THEN 1 ELSE 10 * Pow10(k - 1)

RECURSIVE Zeros(_)
Zeros(k) == IF k = 0 THEN <<>> ELSE <<"0">> \o Zeros(k - 1)

(***************************************************************************)
(* Python floats as exact decimals: float(s), str(x), *, +, -, / 100, <.    *)
(***************************************************************************)
\* n * 10^(-e) with trailing fractional zeros removed, so equal values are equal
RECURSIVE Fin(_, _)
Fin(n, e) ==
    IF e > 0 /\ n % 10 = 0 THEN Fin(n \div 10, e - 1)
    ELSE [kind |-> "fin", n |-> n, e |-> e]

NaN == [kind |-> "nan", n |-> 0, e |-> 0]
PosInf == [kind |-> "inf", n |-> 0, e |-> 0]
NegInf == [kind |-> "-inf", n |-> 0, e |-> 0]
\* float(s) raising ValueError
ValueError == [kind |-> "err", n |-> 0, e |-> 0]
\* a field of the record under entry that no reader has returned yet
NoFloat == [kind |-> "unset", n |-> 0, e |-> 0]

Zero == Fin(0, 0)
Hundred == Fin(100, 0)

\* an unsigned decimal literal: digits, digits.digits, digits. or .digits
ParseUnsigned(b, sign) ==
    LET parts == Split(b, ".") IN
    IF Len(parts) = 1 THEN
        IF b # <<>> /\ AllDigits(b) THEN Fin(sign * DigitsVal(b), 0) ELSE ValueError
    ELSE IF Len(parts) = 2 THEN
        LET ip == parts[1]
            fp == parts[2]
        IN  IF AllDigits(ip) /\ AllDigits(fp) /\ Len(ip) + Len(fp) > 0
            THEN Fin(sign * (DigitsVal(ip) * Pow10(Len(fp)) + DigitsVal(fp)), Len(fp))
            ELSE ValueError
    ELSE ValueError

\* float(s): surrounding whitespace ignored, optional sign, a decimal literal
\* or nan / inf / infinity in any case (exponent and underscore forms are not
\* drawn by the model and are not parsed here)
FloatParse(s0) ==
    LET s == Lower(Strip(s0))
        signed == s # <<>> /\ s[1] \in {"+", "-"}
        sign == IF s # <<>> /\ s[1] = "-" THEN -1 ELSE 1
        b == IF signed THEN Tail(s) ELSE s
    IN  IF b = <<"n","a","n">> THEN NaN
        ELSE IF b = <<"i","n","f">> \/ b = <<"i","n","f","i","n","i","t","y">>
             THEN IF sign = 1 THEN PosInf ELSE NegInf
        ELSE ParseUnsigned(b, sign)

\* str(x) of a float: at least one fractional digit
FloatStr(x) ==
    IF x.kind = "nan" THEN <<"n","a","n">>
    ELSE IF x.kind = "inf" THEN <<"i","n","f">>
    ELSE IF x.kind = "-inf" THEN <<"-","i","n","f">>
    ELSE LET a == IF x.n < 0 THEN 0 - x.n ELSE x.n
             ip == NatStr(a \div Pow10(x.e))
             fd == NatStr(a % Pow10(x.e))
             fp == IF x.e = 0 THEN <<"0">> ELSE Zeros(x.e - Len(fd)) \o fd
         IN  (IF x.n < 0 THEN <<"-">> ELSE <<>>) \o ip \o <<".">> \o fp

IsInf(x) == x.kind \in {"inf", "-inf"}

Sgn(x) ==
    IF x.kind = "inf" THEN 1
    ELSE IF x.kind = "-inf" THEN -1
    ELSE IF x.n > 0 THEN 1 ELSE IF x.n < 0 THEN -1 ELSE 0

\* x * y
FloatMul(x, y) ==
    IF x.kind = "nan" \/ y.kind = "nan" THEN NaN
    ELSE IF IsInf(x) \/ IsInf(y) THEN
        IF Sgn(x) * Sgn(y) = 0 THEN NaN
        ELSE IF Sgn(x) * Sgn(y) > 0 THEN PosInf ELSE NegInf
    ELSE Fin(x.n * y.n, x.e + y.e)

FloatNeg(x) ==
    IF x.kind = "inf" THEN NegInf
    ELSE IF x.kind = "-inf" THEN PosInf
    ELSE IF x.kind = "nan" THEN NaN
    ELSE Fin(0 - x.n, x.e)

\* x + y
FloatAdd(x, y) ==
    IF x.kind = "nan" \/ y.kind = "nan" THEN NaN
    ELSE IF IsInf(x) /\ IsInf(y) THEN (IF x.kind = y.kind THEN x ELSE NaN)
    ELSE IF IsInf(x) THEN x
    ELSE IF IsInf(y) THEN y
    ELSE LET e == IF x.e > y.e THEN x.e ELSE y.e
         IN  Fin(x.n * Pow10(e - x.e) + y.n * Pow10(e - y.e), e)

\* x - y
FloatSub(x, y) == FloatAdd(x, FloatNeg(y))

\* x / 100.0
FloatDiv100(x) == IF x.kind = "fin" THEN Fin(x.n, x.e + 2) ELSE x

\* x < y (every comparison with nan is false)
FloatLt(x, y) ==
    IF x.kind = "nan" \/ y.kind = "nan" THEN FALSE
    ELSE IF x.kind = "-inf" THEN y.kind # "-inf"
    ELSE IF y.kind = "inf" THEN x.kind # "inf"
    ELSE IF IsInf(x) \/ IsInf(y) THEN FALSE
    ELSE LET e == IF x.e > y.e THEN x.e ELSE y.e
         IN  x.n * Pow10(e - x.e) < y.n * Pow10(e - y.e)

\* x <= y
FloatLe(x, y) == x.kind # "nan" /\ y.kind # "nan" /\ (x = y \/ FloatLt(x, y))

(***************************************************************************)
(* calculate_pay                                                            *)
(***************************************************************************)
\* a variant that takes the tax on the hourly rate instead of on the gross pay
calculate_payTaxOnRate(hours, rate, tax_rate) ==
    LET gross == FloatMul(hours, rate)
        tax == FloatMul(rate, tax_rate)
        net == FloatSub(gross, tax)
    IN  [gross |-> gross, tax |-> tax, net |-> net]

calculate_pay(hours, rate, tax_rate) ==
    LET gross == FloatMul(hours, rate)
        tax == FloatMul(gross, tax_rate)
        net == FloatSub(gross, tax)
    IN  [gross |-> gross, tax |-> tax, net |-> net]

(***************************************************************************)
(* prompt_yes_no, check_for_end_and_confirm, datetime.strptime              *)
(***************************************************************************)
\* prompt_yes_no: the answer after strip().lower()
IsYes(s) == Lower(Strip(s)) \in { <<"y">>, <<"y","e","s">> }

IsNo(s) == Lower(Strip(s)) \in { <<"n">>, <<"n","o">> }

\* a variant that forgets lower(): only the spelling "End" is the token
IsEndCaseSensitive(s) == Strip(s) = <<"E","n","d">>

\* check_for_end_and_confirm: s.strip().lower() == "end"
IsEnd(s) == Lower(Strip(s)) = <<"e","n","d">>

\* read_date with allow_all: s.strip().lower() == "all"
IsAll(s) == Lower(Strip(s)) = <<"a","l","l">>

\* the marker read_date returns for the wildcard
All == <<"A","l","l">>

IsLeap(y) == (y % 4 = 0 /\ y % 100 # 0) \/ y % 400 = 0

DaysInMonth(y, m) ==
    IF m = 2 THEN (IF IsLeap(y) THEN 29 ELSE 28)
    ELSE IF m \in {4, 6, 9, 11} THEN 30 ELSE 31

\* %m: 1[0-2] | 0[1-9] | [1-9]
MonthField(s) ==
    /\ Len(s) \in {1, 2}
    /\ AllDigits(s)
    /\ DigitsVal(s) \in 1..12

\* %d: 3[01] | [12]\d | 0[1-9] | [1-9] | space [1-9]
DayField(s) ==
    \/ Len(s) \in {1, 2} /\ AllDigits(s) /\ DigitsVal(s) \in 1..31
    \/ Len(s) = 2 /\ s[1] = " " /\ IsDigit(s[2]) /\ DigitVal(s[2]) \in 1..9

\* %Y: four digits
YearField(s) == Len(s) = 4 /\ AllDigits(s)

\* datetime.strptime(s, "%m/%d/%Y") returns (TRUE) or raises ValueError (FALSE)
strptime(s) ==
    LET parts == Split(s, "/") IN
    /\ Len(parts) = 3
    /\ MonthField(parts[1])
    /\ DayField(parts[2])
    /\ YearField(parts[3])
    /\ DigitsVal(parts[3]) >= 1
    /\ DigitsVal(LStrip(parts[2])) <= DaysInMonth(DigitsVal(parts[3]), DigitsVal(parts[1]))

(***************************************************************************)
(* write_record_to_file                                                     *)
(***************************************************************************)
Bar == <<"|">>

\* the line an f-string builds from a record, without its line break
RecordLine(rec) ==
    rec.from_date \o Bar \o rec.to_date \o Bar \o rec.name \o Bar
      \o FloatStr(rec.hours) \o Bar \o FloatStr(rec.rate) \o Bar
      \o FloatStr(FloatMul(rec.tax_rate, Hundred))

\* a variant that opens the file for writing instead of appending
write_record_to_fileTruncates(rec, lines) == <<RecordLine(rec)>>

\* open(filename, "a").write(line): the file's lines afterwards
write_record_to_file(rec, lines) == Append(lines, RecordLine(rec))

\* the record built from six field values
MakeRecord(from_date, to_date, name, hours, rate, tax_rate) ==
    LET pay == calculate_pay(hours, rate, tax_rate) IN
    [from_date |-> from_date, to_date |-> to_date, name |-> name,
     hours |-> hours, rate |-> rate, tax_rate |-> tax_rate,
     gross |-> pay.gross, tax |-> pay.tax, net |-> pay.net]

(***************************************************************************)
(* run_report_from_file: the scan                                           *)
(***************************************************************************)
ZeroTotals ==
    [count |-> 0, total_hours |-> Zero, total_gross |-> Zero,
     total_tax |-> Zero, total_net |-> Zero]

\* a variant that accumulates the gross pay into the net total
AddToTotalsGrossAsNet(totals, rec) ==
    [count |-> totals.count + 1,
     total_hours |-> FloatAdd(totals.total_hours, rec.hours),
     total_gross |-> FloatAdd(totals.total_gross, rec.gross),
     total_tax |-> FloatAdd(totals.total_tax, rec.tax),
     total_net |-> FloatAdd(totals.total_net, rec.gross)]

AddToTotals(totals, rec) ==
    [count |-> totals.count + 1,
     total_hours |-> FloatAdd(totals.total_hours, rec.hours),
     total_gross |-> FloatAdd(totals.total_gross, rec.gross),
     total_tax |-> FloatAdd(totals.total_tax, rec.tax),
     total_net |-> FloatAdd(totals.total_net, rec.net)]

\* len(parts) != 6
WrongFieldCount(parts) == Len(parts) # 6

\* a variant that never filters by date
DateFilteredNever(requested_from, from_date_str) == FALSE

\* requested_from != "All" and from_date_str != requested_from
DateFiltered(requested_from, from_date_str) ==
    requested_from # All /\ from_date_str # requested_from

\* float() raised ValueError on one of the three numeric fields
NumericError(parts) ==
    \/ FloatParse(parts[4]) = ValueError
    \/ FloatParse(parts[5]) = ValueError
    \/ FloatParse(parts[6]) = ValueError

\* the scan's state before the first line
ScanStart == [matched_records |-> <<>>, totals |-> ZeroTotals, printed |-> <<>>]

\* one iteration of the for loop: acc is the scan's state so far
ScanLine(acc, lineno, raw, requested_from) ==
    LET line == Strip(raw)
        parts == Split(line, "|")
    IN  IF line = <<>> THEN acc
        ELSE IF WrongFieldCount(parts) THEN
            [acc EXCEPT !.printed =
                Append(@, [msg |-> "Skipping malformed line", lineno |-> lineno])]
        ELSE IF DateFiltered(requested_from, parts[1]) THEN acc
        ELSE IF NumericError(parts) THEN
            [acc EXCEPT !.printed =
                Append(@, [msg |-> "Skipping line with invalid numeric data at",
                           lineno |-> lineno])]
        ELSE LET rec == MakeRecord(parts[1], parts[2], parts[3],
                                   FloatParse(parts[4]), FloatParse(parts[5]),
                                   FloatDiv100(FloatParse(parts[6])))
             IN  [acc EXCEPT !.matched_records = Append(@, rec),
                             !.totals = AddToTotals(@, rec)]

\* a variant whose loop breaks at the first line with a wrong field count
RECURSIVE ScanFromBreak(_, _, _, _)
ScanFromBreak(lines, requested_from, i, acc) ==
    IF i > Len(lines) THEN acc
    ELSE IF Strip(lines[i]) # <<>> /\ WrongFieldCount(Split(Strip(lines[i]), "|"))
         THEN ScanLine(acc, i, lines[i], requested_from)
    ELSE ScanFromBreak(lines, requested_from, i + 1,
                       ScanLine(acc, i, lines[i], requested_from))

\* the for loop over enumerate(f, start=1), from line i on
RECURSIVE ScanFrom(_, _, _, _)
ScanFrom(lines, requested_from, i, acc) ==
    IF i > Len(lines) THEN acc
    ELSE ScanFrom(lines, requested_from, i + 1,
                  ScanLine(acc, i, lines[i], requested_from))

Scan(lines, requested_from) == ScanFrom(lines, requested_from, 1, ScanStart)

\* a variant that opens the file for appending and reading without testing
\* that it exists, which creates it
run_report_from_fileCreates(exists, lines, requested_from) ==
    LET res == Scan(lines, requested_from) IN
    [exists |-> TRUE,
     matched_records |-> res.matched_records,
     totals |-> res.totals,
     printed |-> res.printed \o
        <<[msg |-> IF res.matched_records # <<>>
                   THEN "Found matching record(s)."
                   ELSE "No matching records found for the requested date.",
           lineno |-> 0]>>]

\* run_report_from_file once the date has been read: the existence test, the
\* scan and the closing message; exists is os.path.exists afterwards
run_report_from_file(exists, lines, requested_from) ==
    LET res == Scan(lines, requested_from) IN
    IF ~exists
    THEN [exists |-> FALSE,
          matched_records |-> <<>>,
          totals |-> ZeroTotals,
          printed |-> <<[msg |-> "No data file found. No records to display.",
                         lineno |-> 0]>>]
    ELSE [exists |-> TRUE,
          matched_records |-> res.matched_records,
          totals |-> res.totals,
          printed |-> res.printed \o
             <<[msg |-> IF res.matched_records # <<>>
                        THEN "Found matching record(s)."
                        ELSE "No matching records found for the requested date.",
                lineno |-> 0]>>]

(***************************************************************************)
(* The field readers, as functions of the line the operator typed.  Each    *)
(* returns what the reader's loop does with that line: "reprompt" (print    *)
(* msg and ask again), "end" (the line is the End token: ask the quit       *)
(* confirmation) or "value" (return value).                                 *)
(***************************************************************************)
Say(m) == [msg |-> m, lineno |-> 0]

Reprompt(m) == [kind |-> "reprompt", value |-> <<>>, msg |-> m]

AskQuit == [kind |-> "end", value |-> <<>>, msg |-> "You entered 'End'. Do you want to quit? (y/n): "]

Value(v) == [kind |-> "value", value |-> v, msg |-> ""]

read_date(typed_line, allow_all) ==
    LET s == Strip(typed_line) IN
    IF s = <<>> THEN Reprompt("Please enter a date or 'All'.")
    ELSE IF allow_all /\ IsAll(s) THEN Value(All)
    ELSE IF IsEnd(s) THEN AskQuit
    ELSE IF strptime(s) THEN Value(s)
    ELSE Reprompt("Invalid date. Use mm/dd/yyyy (for example 04/20/2025).")

input_name(typed_line) ==
    LET s == Strip(typed_line) IN
    IF s = <<>> THEN Reprompt("Name cannot be blank.")
    ELSE IF IsEnd(s) THEN AskQuit
    ELSE Value(s)

\* a variant that forgets the test hours < 0
input_hoursNoSignCheck(typed_line) ==
    LET s == Strip(typed_line)
        hrs == FloatParse(s)
    IN  IF s = <<>> THEN Reprompt("Please enter hours.")
        ELSE IF IsEnd(s) THEN AskQuit
        ELSE IF hrs = ValueError THEN Reprompt("Enter a valid number for hours.")
        ELSE Value(hrs)

input_hours(typed_line) ==
    LET s == Strip(typed_line)
        hrs == FloatParse(s)
    IN  IF s = <<>> THEN Reprompt("Please enter hours.")
        ELSE IF IsEnd(s) THEN AskQuit
        ELSE IF hrs = ValueError THEN Reprompt("Enter a valid number for hours.")
        ELSE IF FloatLt(hrs, Zero) THEN Reprompt("Hours must be non-negative.")
        ELSE Value(hrs)

input_hourly_rate(typed_line) ==
    LET s == Strip(typed_line)
        r == FloatParse(s)
    IN  IF s = <<>> THEN Reprompt("Please enter hourly rate.")
        ELSE IF IsEnd(s) THEN AskQuit
        ELSE IF r = ValueError THEN Reprompt("Enter a valid number for hourly rate.")
        ELSE IF FloatLt(r, Zero) THEN Reprompt("Hourly rate must be non-negative.")
        ELSE Value(r)

input_tax_rate(typed_line) ==
    LET s == Strip(typed_line)
        pct == FloatParse(s)
    IN  IF s = <<>> THEN Reprompt("Please enter a tax rate.")
        ELSE IF IsEnd(s) THEN AskQuit
        ELSE IF pct = ValueError THEN Reprompt("Enter a valid percentage for tax rate.")
        ELSE IF ~(FloatLe(Zero, pct) /\ FloatLe(pct, Hundred))
             THEN Reprompt("Tax rate must be between 0 and 100.")
        ELSE Value(FloatDiv100(pct))

\* a variant whose loop stops before the last record
RECURSIVE summarize_and_display_totalsDropsLast(_)
summarize_and_display_totalsDropsLast(records) ==
    IF Len(records) <= 1 THEN ZeroTotals
    ELSE AddToTotals(
            summarize_and_display_totalsDropsLast(SubSeq(records, 1, Len(records) - 1)),
            records[Len(records) - 1])

\* summarize_and_display_totals: the totals of a session's records
RECURSIVE summarize_and_display_totals(_)
summarize_and_display_totals(records) ==
    IF records = <<>> THEN ZeroTotals
    ELSE AddToTotals(
            summarize_and_display_totals(SubSeq(records, 1, Len(records) - 1)),
            records[Len(records)])

(***************************************************************************)
(* The lines the operator may type at each prompt, and the lines the data   *)
(* file may hold when the program starts.                                   *)
(***************************************************************************)
End == <<"E","n","d">>
Date1 == <<"0","4","/","2","0","/","2","0","2","5">>
Date2 == <<"0","5","/","0","1","/","2","0","2","5">>

MenuInputs == { <<"1">>, <<"2">>, <<"Q">>, <<"x">>, End }

YesNoInputs == { <<"y">>, <<" ","Y","E","S">>, <<"n">>, <<"n","o">>, <<"x">> }

AddAnotherInputs == { <<"y">>, <<"y","e","s">>, <<"n">>, End }

DateInputs ==
    { <<>>, End, <<" ","e","n","d"," ">>, All, Date1, Date2,
      <<"0","2","/","3","0","/","2","0","2","5">> }

\* the two date prompts of add_employees_menu are the same reader; one valid
\* date is drawn for each
FromDateInputs == DateInputs \ { Date2 }
ToDateInputs == DateInputs \ { Date1 }

NameInputs == { <<" ">>, End, <<"e","n","d">>, <<"A","l">>, <<"A","|","B">> }

HoursInputs == { <<>>, End, <<"4","0">>, <<"-","1">>, <<"a","b","c">> }

RateInputs == { <<>>, End, <<"2","0">>, <<"-","1">>, <<"a","b","c">> }

TaxInputs == { <<>>, End, <<"1","5">>, <<"1","0","1">>, <<"a","b","c">> }

\* 04/20/2025|04/26/2025|Al|40.0|20.0|15.0
LineGood1 ==
    <<"0","4","/","2","0","/","2","0","2","5","|","0","4","/","2","6","/","2","0","2","5","|",
      "A","l","|","4","0",".","0","|","2","0",".","0","|","1","5",".","0">>
\* 05/01/2025|05/07/2025|Bo|7.5|10.0|0.0
LineGood2 ==
    <<"0","5","/","0","1","/","2","0","2","5","|","0","5","/","0","7","/","2","0","2","5","|",
      "B","o","|","7",".","5","|","1","0",".","0","|","0",".","0">>
\* 04/20/2025|04/26/2025|Al|40.0|20.0   (five fields: an append cut short)
LineShort ==
    <<"0","4","/","2","0","/","2","0","2","5","|","0","4","/","2","6","/","2","0","2","5","|",
      "A","l","|","4","0",".","0","|","2","0",".","0">>
\* 04/20/2025|04/26/2025|Al|abc|20.0|15.0   (six fields, hours not a number)
LineBadHours ==
    <<"0","4","/","2","0","/","2","0","2","5","|","0","4","/","2","6","/","2","0","2","5","|",
      "A","l","|","a","b","c","|","2","0",".","0","|","1","5",".","0">>
\* a line of blanks
LineBlank == <<" ">>

SampleLines == { LineGood1, LineGood2, LineShort, LineBadHours, LineBlank }

InitFiles == UNION { [1..n -> SampleLines] : n \in 0..MaxInitLines }

(***************************************************************************)
(* State                                                                    *)
(***************************************************************************)
VARIABLES
    pc,               \* the prompt the program is blocked at, or "exited"
    reader,           \* the reader inside which the quit confirmation is asked
    entry,            \* add_employees_menu: the field values read this round
    session_records,  \* add_employees_menu: session_records
    file_exists,      \* os.path.exists(DATA_FILENAME)
    file,             \* the lines of employees.txt
    writes,           \* records appended during this run
    requested_from,   \* run_report_from_file: requested_from (<<>> outside a report)
    matched_records,  \* run_report_from_file: matched_records
    totals,           \* run_report_from_file: totals
    session_totals,   \* what summarize_and_display_totals returned
    printed,          \* what the last step printed
    typed,            \* the line the operator typed in the last step
    prev_pc,          \* the prompt that line answered
    confirms          \* 'yes' answers to confirmations since the last menu choice

vars == <<pc, reader, entry, session_records, file_exists, file, writes,
          requested_from, matched_records, totals, session_totals,
          printed, typed, prev_pc, confirms>>

NoEntry ==
    [from_date |-> <<>>, to_date |-> <<>>, name |-> <<>>,
     hours |-> NoFloat, rate |-> NoFloat, tax_rate |-> NoFloat]

AddFields == {"from_date", "to_date", "name", "hours", "rate", "tax_rate"}

Init ==
    /\ pc = "menu"
    /\ reader = "none"
    /\ entry = NoEntry
    /\ session_records = <<>>
    /\ \/ file_exists = FALSE /\ file = <<>>
       \/ file_exists = TRUE /\ file \in InitFiles
    /\ writes = 0
    /\ requested_from = <<>>
    /\ matched_records = <<>>
    /\ totals = ZeroTotals
    /\ session_totals = ZeroTotals
    /\ printed = <<>>
    /\ typed = <<>>
    /\ prev_pc = "start"
    /\ confirms = 0

\* the report's locals are dead outside run_report_from_file
NoReport ==
    /\ requested_from' = <<>>
    /\ matched_records' = <<>>
    /\ totals' = ZeroTotals

\* every step records the line typed and the prompt it answered
Typed(s) == typed' = s /\ prev_pc' = pc

(***************************************************************************)
(* main: the menu loop                                                      *)
(***************************************************************************)
\* a variant in which the menu's quit choice exits without asking
main_choiceNoConfirm(choice) ==
    IF choice = <<"1">> THEN "from_date"
    ELSE IF choice = <<"2">> THEN "report_date"
    ELSE IF choice = <<"q">> THEN "exited"
    ELSE "menu"

\* where main goes on a menu choice (already stripped and lower-cased)
main_choice(choice) ==
    IF choice = <<"1">> THEN "from_date"
    ELSE IF choice = <<"2">> THEN "report_date"
    ELSE IF choice = <<"q">> THEN "q_confirm"
    ELSE "menu"

\* a variant in which add_employees_menu swallows the signal as the report does
QuitRequestedSwallowed(in_reader) == "menu"

\* where a raised QuitRequested is caught: run_report_from_file swallows it and
\* returns to the menu; add_employees_menu re-raises it to main, which asks the
\* exit confirmation
QuitRequested(in_reader) ==
    IF in_reader = "report_date" THEN "menu" ELSE "exit_confirm"

\* a variant that asks for the name before the to date
NextFieldNameFirst(f) ==
    CASE f = "from_date" -> "name"
      [] f = "name" -> "to_date"
      [] f = "to_date" -> "hours"
      [] f = "hours" -> "rate"
      [] f = "rate" -> "tax_rate"
      [] f = "tax_rate" -> "add_another"

\* the prompt that follows a field of add_employees_menu
NextField(f) ==
    CASE f = "from_date" -> "to_date"
      [] f = "to_date" -> "name"
      [] f = "name" -> "hours"
      [] f = "hours" -> "rate"
      [] f = "rate" -> "tax_rate"
      [] f = "tax_rate" -> "add_another"

\* choice = input(...).strip().lower() and the dispatch on it
MainMenu ==
    /\ pc = "menu"
    /\ \E s \in MenuInputs :
         LET target == main_choice(Lower(Strip(s))) IN
         /\ pc' = target
         /\ printed' = IF target = "menu"
                       THEN <<Say("Invalid choice. Please enter 1, 2, or Q.")>>
                       ELSE <<>>
         /\ Typed(s)
    /\ reader' = "none"
    /\ entry' = NoEntry
    /\ session_records' = <<>>
    /\ session_totals' = ZeroTotals
    /\ confirms' = 0
    /\ NoReport
    /\ UNCHANGED <<file_exists, file, writes>>

\* what a reader's loop does with one typed line, for the readers that only
\* store a value: r is the reader's result for the line
ReaderStep(field, r, s) ==
    /\ Typed(s)
    /\ printed' = IF r.kind = "value" THEN <<>> ELSE <<Say(r.msg)>>
    /\ pc' = IF r.kind = "value" THEN NextField(field)
             ELSE IF r.kind = "end" THEN "quit_confirm" ELSE field
    /\ reader' = IF r.kind = "end" THEN field ELSE "none"
    /\ entry' = IF r.kind = "value" THEN [entry EXCEPT ![field] = r.value] ELSE entry
    /\ UNCHANGED <<session_records, file_exists, file, writes, requested_from,
                   matched_records, totals, session_totals, confirms>>

\* from_date = read_date("From date (mm/dd/yyyy): ")
ReadFromDate ==
    /\ pc = "from_date"
    /\ \E s \in FromDateInputs : ReaderStep("from_date", read_date(s, FALSE), s)

\* to_date = read_date("To date (mm/dd/yyyy): ")
ReadToDate ==
    /\ pc = "to_date"
    /\ \E s \in ToDateInputs : ReaderStep("to_date", read_date(s, FALSE), s)

InputName ==
    /\ pc = "name"
    /\ \E s \in NameInputs : ReaderStep("name", input_name(s), s)

InputHours ==
    /\ pc = "hours"
    /\ \E s \in HoursInputs : ReaderStep("hours", input_hours(s), s)

InputHourlyRate ==
    /\ pc = "rate"
    /\ \E s \in RateInputs : ReaderStep("rate", input_hourly_rate(s), s)

\* tax_rate = input_tax_rate(); on a value the record is built, appended to
\* session_records and written to the file before the next prompt
InputTaxRateOn(inputs) ==
    /\ pc = "tax_rate"
    /\ \E s \in inputs :
         LET r == input_tax_rate(s)
             rec == MakeRecord(entry.from_date, entry.to_date, entry.name,
                               entry.hours, entry.rate, r.value)
         IN  IF r.kind = "value"
             THEN /\ writes < MaxAppend
                  /\ Typed(s)
                  /\ entry' = [entry EXCEPT !.tax_rate = r.value]
                  /\ session_records' = Append(session_records, rec)
                  /\ file' = write_record_to_file(rec, file)
                  /\ file_exists' = TRUE
                  /\ writes' = writes + 1
                  /\ printed' = <<Say("Record added and saved to file.")>>
                  /\ pc' = NextField("tax_rate")
                  /\ reader' = "none"
                  /\ UNCHANGED <<requested_from, matched_records, totals,
                                 session_totals, confirms>>
             ELSE ReaderStep("tax_rate", r, s)

InputTaxRate == InputTaxRateOn(TaxInputs)

\* cont = input("Add another employee? (y/n): ").strip().lower(); anything but
\* "y" ends the session, and main prints the summary of a non-empty session
AddAnother ==
    /\ pc = "add_another"
    /\ \E s \in AddAnotherInputs :
         /\ Typed(s)
         /\ IF Lower(Strip(s)) = <<"y">>
            THEN /\ pc' = "from_date"
                 /\ entry' = NoEntry
                 /\ printed' = <<>>
                 /\ session_totals' = session_totals
            ELSE /\ pc' = "menu"
                 /\ entry' = entry
                 /\ printed' = IF session_records # <<>>
                               THEN <<Say("Session summary")>> ELSE <<>>
                 /\ session_totals' = IF session_records # <<>>
                                      THEN summarize_and_display_totals(session_records)
                                      ELSE session_totals
    /\ UNCHANGED <<reader, session_records, file_exists, file, writes,
                   requested_from, matched_records, totals, confirms>>

\* run_report_from_file: the date prompt and, on a value, the whole report
ReportDateOn(inputs) ==
    /\ pc = "report_date"
    /\ \E s \in inputs :
         LET r == read_date(s, TRUE)
             res == run_report_from_file(file_exists, file, r.value)
         IN  /\ Typed(s)
             /\ pc' = IF r.kind = "value" THEN "menu"
                      ELSE IF r.kind = "end" THEN "quit_confirm" ELSE "report_date"
             /\ reader' = IF r.kind = "end" THEN "report_date" ELSE "none"
             /\ IF r.kind = "value"
                THEN /\ requested_from' = r.value
                     /\ matched_records' = res.matched_records
                     /\ totals' = res.totals
                     /\ printed' = res.printed
                     /\ file_exists' = res.exists
                ELSE /\ UNCHANGED <<requested_from, matched_records, totals, file_exists>>
                     /\ printed' = <<Say(r.msg)>>
    /\ UNCHANGED <<entry, session_records, file, writes, session_totals, confirms>>

ReportDate == ReportDateOn(DateInputs)

\* check_for_end_and_confirm: prompt_yes_no("You entered 'End'. Do you want to quit?")
QuitConfirm ==
    /\ pc = "quit_confirm"
    /\ \E s \in YesNoInputs :
         /\ Typed(s)
         /\ IF IsYes(s)
            THEN /\ pc' = QuitRequested(reader)
                 /\ reader' = "none"
                 /\ confirms' = confirms + 1
                 /\ entry' = NoEntry
                 /\ session_records' = <<>>
                 /\ printed' = IF reader = "report_date"
                               THEN <<Say("Quit requested while entering report date. Aborting report.")>>
                               ELSE <<>>
            ELSE IF IsNo(s)
            THEN /\ pc' = reader
                 /\ reader' = "none"
                 /\ printed' = <<>>
                 /\ UNCHANGED <<confirms, entry, session_records>>
            ELSE /\ printed' = <<Say("Please enter 'y' or 'n'.")>>
                 /\ UNCHANGED <<pc, reader, confirms, entry, session_records>>
    /\ UNCHANGED <<file_exists, file, writes, requested_from, matched_records,
                   totals, session_totals>>

\* the two final prompts of main, answered by prompt_yes_no
FinalConfirm(at, no_msg) ==
    /\ pc = at
    /\ \E s \in YesNoInputs :
         /\ Typed(s)
         /\ IF IsYes(s)
            THEN /\ pc' = "exited"
                 /\ confirms' = confirms + 1
                 /\ printed' = <<Say("Exiting program. Goodbye!")>>
            ELSE IF IsNo(s)
            THEN /\ pc' = "menu"
                 /\ confirms' = confirms
                 /\ printed' = no_msg
            ELSE /\ pc' = pc
                 /\ confirms' = confirms
                 /\ printed' = <<Say("Please enter 'y' or 'n'.")>>
    /\ UNCHANGED <<reader, entry, session_records, file_exists, file, writes,
                   requested_from, matched_records, totals, session_totals>>

\* except QuitRequested: prompt_yes_no("Quit requested. Do you want to exit the
\* program entirely?")
ExitConfirm == FinalConfirm("exit_confirm", <<Say("Returning to main menu.")>>)

\* choice == "q": prompt_yes_no("Are you sure you want to quit?")
QuitChoiceConfirm == FinalConfirm("q_confirm", <<>>)

Next ==
    \/ MainMenu
    \/ ReadFromDate
    \/ ReadToDate
    \/ InputName
    \/ InputHours
    \/ InputHourlyRate
    \/ InputTaxRate
    \/ AddAnother
    \/ ReportDate
    \/ QuitConfirm
    \/ ExitConfirm
    \/ QuitChoiceConfirm

Spec == Init /\ [][Next]_vars

(***************************************************************************)
(* The readers on their own: each reader, at its prompt after the usual     *)
(* earlier answers, is given one line from a wider set of texts.            *)
(***************************************************************************)
ReaderLines ==
    { <<>>, <<" ">>, End, <<" ","e","n","d"," ">>, All, <<"a","l","l">>,
      Date1, Date2,
      <<"4","/","2","0","/","2","0","2","5">>,
      <<"0","4","/"," ","5","/","2","0","2","5">>,
      <<"0","4","/","2","0","/","2","5">>,
      <<"0","2","/","3","0","/","2","0","2","5">>,
      <<"0","2","/","2","9","/","2","0","2","4">>,
      <<"0","2","/","2","9","/","2","0","2","5">>,
      <<"1","3","/","0","1","/","2","0","2","5">>,
      <<"2","0","2","5","-","0","4","-","2","0">>,
      <<"A","l">>, <<"A","|","B">>,
      <<"4","0">>, <<" ","4","0"," ">>, <<"7",".","5">>, <<".","5">>, <<"5",".">>,
      <<"+","5">>, <<"-","1">>, <<"-","0",".","5">>, <<"0">>, <<"1","5">>,
      <<"1","0","0">>, <<"1","0","1">>, <<"1","0","0",".","5">>,
      <<"a","b","c">>, <<"1",".","2",".","3">>,
      <<"n","a","n">>, <<"N","a","N">>, <<"i","n","f">>, <<"-","i","n","f">>,
      <<"I","n","f","i","n","i","t","y">> }

Readers == AddFields \cup {"report_date"}

\* the reader add_employees_menu calls for a field, applied to a typed line
ReaderOf(field, s) ==
    CASE field \in {"from_date", "to_date"} -> read_date(s, FALSE)
      [] field = "name" -> input_name(s)
      [] field = "hours" -> input_hours(s)
      [] field = "rate" -> input_hourly_rate(s)
      [] field = "tax_rate" -> input_tax_rate(s)

\* the fields already read when prompt p is reached in a round where the
\* operator answered 04/20/2025, 05/01/2025, Al, 40, 20
EntryBefore(p) ==
    LET after(fs) == p \in fs IN
    [from_date |-> IF after(AddFields \ {"from_date"}) THEN Date1 ELSE <<>>,
     to_date |-> IF after({"name", "hours", "rate", "tax_rate"}) THEN Date2 ELSE <<>>,
     name |-> IF after({"hours", "rate", "tax_rate"}) THEN <<"A","l">> ELSE <<>>,
     hours |-> IF after({"rate", "tax_rate"}) THEN Fin(40, 0) ELSE NoFloat,
     rate |-> IF after({"tax_rate"}) THEN Fin(20, 0) ELSE NoFloat,
     tax_rate |-> NoFloat]

InitReaders ==
    /\ pc \in Readers
    /\ reader = "none"
    /\ entry = EntryBefore(pc)
    /\ session_records = <<>>
    /\ file_exists = FALSE /\ file = <<>>
    /\ writes = 0
    /\ requested_from = <<>>
    /\ matched_records = <<>>
    /\ totals = ZeroTotals
    /\ session_totals = ZeroTotals
    /\ printed = <<>>
    /\ typed = <<>>
    /\ prev_pc = "start"
    /\ confirms = 0

ReadFieldOnce ==
    /\ prev_pc = "start"
    /\ pc \in AddFields \ {"tax_rate"}
    /\ \E s \in ReaderLines : ReaderStep(pc, ReaderOf(pc, s), s)

ReadTaxOnce == prev_pc = "start" /\ InputTaxRateOn(ReaderLines)

ReadReportDateOnce == prev_pc = "start" /\ ReportDateOn(ReaderLines)

NextReaders ==
    \/ ReadFieldOnce
    \/ ReadTaxOnce
    \/ ReadReportDateOnce

SpecReaders == InitReaders /\ [][NextReaders]_vars

(***************************************************************************)
(* The terminal's interrupt key.  Every prompt is a call of input(), which  *)
(* raises KeyboardInterrupt when the key is pressed; no handler of the      *)
(* program names that exception (they name QuitRequested and ValueError     *)
(* only), so it leaves main and the interpreter ends the process with a     *)
(* traceback and a failure status.                                          *)
(***************************************************************************)
CtrlC == <<"^C">>

Interrupt ==
    /\ pc \notin {"exited", "interrupted"}
    /\ pc' = "interrupted"
    /\ typed' = CtrlC /\ prev_pc' = pc
    /\ printed' = <<Say("Traceback (most recent call last): KeyboardInterrupt")>>
    /\ reader' = "none"
    /\ entry' = NoEntry
    /\ session_records' = <<>>
    /\ NoReport
    /\ UNCHANGED <<file_exists, file, writes, session_totals, confirms>>

NextInterrupt == Next \/ Interrupt

SpecInterrupt == Init /\ [][NextInterrupt]_vars

(***************************************************************************)
(* The pay calculation on its own: the tax prompt of a round whose hours    *)
(* and rate range over a grid, then the end of the session and a report     *)
(* that reads the stored record back.                                       *)
(***************************************************************************)
PayAmounts == { Fin(n, e) : n \in 0..MaxPayUnits, e \in 0..1 }

PayTaxLines == { <<"0">>, <<"1","5">>, <<"7",".","5">>, <<"1","0","0">> }

InitPay ==
    /\ pc = "tax_rate"
    /\ reader = "none"
    /\ \E h \in PayAmounts \cup {Fin(40, 0)}, r \in PayAmounts \cup {Fin(20, 0)} :
         entry = [EntryBefore("tax_rate") EXCEPT !.hours = h, !.rate = r]
    /\ session_records = <<>>
    /\ file_exists = FALSE /\ file = <<>>
    /\ writes = 0
    /\ requested_from = <<>>
    /\ matched_records = <<>>
    /\ totals = ZeroTotals
    /\ session_totals = ZeroTotals
    /\ printed = <<>>
    /\ typed = <<>>
    /\ prev_pc = "start"
    /\ confirms = 0

PayTax == prev_pc = "start" /\ InputTaxRateOn(PayTaxLines)

NextPay ==
    \/ PayTax
    \/ AddAnother
    \/ MainMenu
    \/ ReportDate

SpecPay == InitPay /\ [][NextPay]_vars

(***************************************************************************)
(* Vocabulary of the properties                                             *)
(***************************************************************************)
Range(f) == { f[i] : i \in DOMAIN f }

\* the reserved token as the specification defines it: "End" in any case,
\* surrounding whitespace ignored
EndToken(s) == Lower(Strip(s)) = <<"e","n","d">>

\* the prompts at which the operator types a line other than a yes/no answer
TypedPrompts == {"menu", "report_date", "add_another"} \cup AddFields

\* a report has just run over an existing file
ReportRan == pc = "menu" /\ prev_pc = "report_date" /\ file_exists

\* a stored line is well formed: six fields, numeric hours, rate and tax
WellFormed(raw) ==
    LET parts == Split(Strip(raw), "|") IN
    /\ Len(parts) = 6
    /\ FloatParse(parts[4]) # ValueError
    /\ FloatParse(parts[5]) # ValueError
    /\ FloatParse(parts[6]) # ValueError

\* a stored line is malformed: not blank and not well formed
Malformed(raw) == Strip(raw) # <<>> /\ ~WellFormed(raw)

FromDateOf(raw) == Split(Strip(raw), "|")[1]

\* the record a well-formed line stands for
RecordOf(raw) ==
    LET parts == Split(Strip(raw), "|")
        hours == FloatParse(parts[4])
        rate == FloatParse(parts[5])
        tax_rate == FloatDiv100(FloatParse(parts[6]))
        gross == FloatMul(hours, rate)
    IN  [from_date |-> parts[1], to_date |-> parts[2], name |-> parts[3],
         hours |-> hours, rate |-> rate, tax_rate |-> tax_rate,
         gross |-> gross, tax |-> FloatMul(gross, tax_rate),
         net |-> FloatSub(gross, FloatMul(gross, tax_rate))]

WellFormedOn(raw, d) == WellFormed(raw) /\ FromDateOf(raw) = d

ExpectedLines(d) ==
    IF d = All THEN SelectSeq(file, WellFormed)
    ELSE SelectSeq(file, LAMBDA raw : WellFormedOn(raw, d))

ExpectedRecords(d) ==
    LET ls == ExpectedLines(d) IN [i \in 1..Len(ls) |-> RecordOf(ls[i])]

RECURSIVE SumOf(_, _)
SumOf(recs, field) ==
    IF recs = <<>> THEN Zero
    ELSE FloatAdd(SumOf(SubSeq(recs, 1, Len(recs) - 1), field), recs[Len(recs)][field])

\* a step of a field reader on the End token
C1_EndAsksQuit ==
    (pc \in AddFields \cup {"report_date"} /\ EndToken(typed'))
        => (pc' = "quit_confirm" /\ reader' = pc /\ entry' = entry
            /\ session_records' = session_records
            /\ file' = file /\ file_exists' = file_exists)

\* a step of the quit confirmation answered 'no'
C1_DeclineReprompts ==
    (pc = "quit_confirm" /\ IsNo(typed'))
        => (pc' = reader /\ entry' = entry
            /\ session_records' = session_records
            /\ file' = file /\ file_exists' = file_exists)

\* no text field read so far is the End token
C1_NoEndValue ==
    /\ ~EndToken(entry.from_date) /\ ~EndToken(entry.to_date) /\ ~EndToken(entry.name)
    /\ ~EndToken(requested_from)
    /\ \A i \in DOMAIN session_records :
         /\ ~EndToken(session_records[i].from_date)
         /\ ~EndToken(session_records[i].to_date)
         /\ ~EndToken(session_records[i].name)

(***************************************************************************)
(* C1: in every field reader, 'End' (any case, blanks around it ignored)    *)
(* leads to the quit confirmation; answering 'no' there returns to the      *)
(* prompt of the same field with the values read so far, the session list   *)
(* and the data file unchanged; and no field ever holds the End token.      *)
(***************************************************************************)
C1_EndDeclinedReprompts ==
    /\ [][C1_EndAsksQuit /\ C1_DeclineReprompts]_vars
    /\ []C1_NoEndValue

\* the name prompt is asked again after a declined End, the dates kept
C1_Witness ==
    /\ prev_pc = "quit_confirm" /\ IsNo(typed) /\ pc = "name"
    /\ entry.from_date = Date1 /\ entry.name = <<>>

\* a step of the quit confirmation answered 'yes' inside add_employees_menu
C2_QuitPropagates ==
    (pc = "quit_confirm" /\ reader \in AddFields /\ IsYes(typed'))
        => (pc' = "exit_confirm" /\ file' = file /\ file_exists' = file_exists
            /\ writes' = writes)

\* a step of the top-level exit confirmation
C2_SecondConfirmation ==
    pc = "exit_confirm" =>
        /\ IsYes(typed') => pc' = "exited"
        /\ IsNo(typed') => pc' = "menu"
        /\ pc' = "exited" => IsYes(typed')

(***************************************************************************)
(* C2: in 'add employees' a confirmed quit at any of the six field prompts  *)
(* writes nothing and leads to the top-level exit confirmation; the process *)
(* exits from there exactly on 'yes' and returns to the menu on 'no'.       *)
(***************************************************************************)
C2_AddQuitAsksTwice == [][C2_QuitPropagates /\ C2_SecondConfirmation]_vars

\* the exit confirmation was declined after a quit confirmed during entry
C2_Witness ==
    /\ pc = "menu" /\ prev_pc = "exit_confirm" /\ IsNo(typed) /\ confirms = 1

(***************************************************************************)
(* C3: a quit confirmed at the report's date prompt leads to the top-level  *)
(* exit confirmation.                                                       *)
(***************************************************************************)
C3_ReportQuitAsksExit ==
    [][(pc = "quit_confirm" /\ reader = "report_date" /\ IsYes(typed'))
          => pc' = "exit_confirm"]_vars

(***************************************************************************)
(* C4 as stated: the process has exited only from the top-level exit        *)
(* confirmation, after two 'yes' answers.                                   *)
(***************************************************************************)
C4_ExitOnlyTwiceConfirmed ==
    pc = "exited" => (prev_pc = "exit_confirm" /\ confirms = 2)

(***************************************************************************)
(* C4 as amended: the process has exited only on a 'yes' answer, given      *)
(* either to the top-level exit confirmation (the second 'yes', after a     *)
(* confirmed End) or to the confirmation of the menu's own quit choice (a   *)
(* single 'yes'); and the exit confirmation is entered only from a          *)
(* confirmed End.                                                           *)
(***************************************************************************)
C4_ExitOnlyConfirmed ==
    /\ pc = "exited" =>
         /\ IsYes(typed)
         /\ \/ prev_pc = "exit_confirm" /\ confirms = 2
            \/ prev_pc = "q_confirm" /\ confirms = 1
    /\ pc = "exit_confirm" =>
         \/ prev_pc = "quit_confirm" /\ IsYes(typed) /\ confirms = 1
         \/ prev_pc = "exit_confirm" /\ ~IsYes(typed) /\ ~IsNo(typed) /\ confirms = 1

\* the process exited on the single confirmation of the menu's quit choice
C4_Witness == pc = "exited" /\ prev_pc = "q_confirm" /\ confirms = 1

(***************************************************************************)
(* C5: at every prompt where the operator types a line, 'End' leads to the  *)
(* quit confirmation.                                                       *)
(***************************************************************************)
C5_EndEverywhere ==
    [][(pc \in TypedPrompts /\ EndToken(typed')) => pc' = "quit_confirm"]_vars

(***************************************************************************)
(* C6: a record just written is found again, with the same dates, name,     *)
(* hours, rate, tax rate, gross, tax and net, by a report for its from-date.*)
(***************************************************************************)
C6_RoundTrip ==
    (pc = "add_another" /\ prev_pc = "tax_rate") =>
        LET rec == session_records[Len(session_records)]
        IN  rec \in Range(Scan(file, rec.from_date).matched_records)

(***************************************************************************)
(* C7: a report for a literal date d matches exactly the well-formed lines  *)
(* whose from_date field equals d, in file order; a single match makes the  *)
(* totals that record's values.                                             *)
(***************************************************************************)
C7_LiteralDateMatches ==
    (ReportRan /\ requested_from # All) =>
        /\ matched_records = ExpectedRecords(requested_from)
        /\ \A i \in DOMAIN matched_records :
             matched_records[i].from_date = requested_from
        /\ Len(matched_records) = 1 =>
             /\ totals.count = 1
             /\ totals.total_hours = matched_records[1].hours
             /\ totals.total_gross = matched_records[1].gross
             /\ totals.total_tax = matched_records[1].tax
             /\ totals.total_net = matched_records[1].net

\* the example: lines for 04/20/2025 and 05/01/2025, a report for 04/20/2025
C7_Witness ==
    /\ ReportRan /\ requested_from = Date1
    /\ file = <<LineGood1, LineGood2>>
    /\ Len(matched_records) = 1

(***************************************************************************)
(* C8: a report for 'All' matches every well-formed line whatever its       *)
(* dates, and its totals are the count of the matched records and the sums  *)
(* of their hours and of their own gross, tax and net.                      *)
(***************************************************************************)
C8_WildcardMatchesAll ==
    (ReportRan /\ requested_from = All) =>
        /\ matched_records = ExpectedRecords(All)
        /\ Len(matched_records) = Cardinality({i \in DOMAIN file : WellFormed(file[i])})
        /\ totals.count = Len(matched_records)
        /\ totals.total_hours = SumOf(matched_records, "hours")
        /\ totals.total_gross = SumOf(matched_records, "gross")
        /\ totals.total_tax = SumOf(matched_records, "tax")
        /\ totals.total_net = SumOf(matched_records, "net")

\* two records of different dates matched by one wildcard report
C8_Witness ==
    /\ ReportRan /\ requested_from = All
    /\ Len(matched_records) = 2
    /\ matched_records[1].from_date # matched_records[2].from_date
    /\ totals.total_tax # Zero

(***************************************************************************)
(* C9: a malformed line adds nothing to the matched records or the totals   *)
(* and does not stop the scan: every well-formed matching line after it is  *)
(* matched.                                                                 *)
(***************************************************************************)
C9_MalformedSkipped ==
    ReportRan =>
        LET hit(i) == WellFormed(file[i])
                      /\ (requested_from = All \/ FromDateOf(file[i]) = requested_from)
        IN  /\ \A i, j \in DOMAIN file :
                 (i < j /\ Malformed(file[i]) /\ hit(j))
                     => RecordOf(file[j]) \in Range(matched_records)
            /\ Len(matched_records) = Cardinality({i \in DOMAIN file : hit(i)})
            /\ totals.count = Cardinality({i \in DOMAIN file : hit(i)})
            /\ \A k \in DOMAIN matched_records :
                 \E i \in DOMAIN file : hit(i) /\ matched_records[k] = RecordOf(file[i])

\* a matching line was matched after a malformed one
C9_Witness ==
    /\ ReportRan
    /\ \E i, j \in DOMAIN file :
         /\ i < j /\ Malformed(file[i]) /\ WellFormed(file[j])
         /\ RecordOf(file[j]) \in Range(matched_records)

(***************************************************************************)
(* C10: every malformed line of the file is reported with its 1-based line  *)
(* number, whatever date was requested.                                     *)
(***************************************************************************)
C10_MalformedReported ==
    ReportRan =>
        \A i \in DOMAIN file :
            Malformed(file[i]) => \E k \in DOMAIN printed : printed[k].lineno = i

\* the line answers the report's date prompt: the wildcard or a valid date
DateAnswer(s) == IsAll(s) \/ (~EndToken(s) /\ strptime(Strip(s)))

NoDataFileMessage == [msg |-> "No data file found. No records to display.", lineno |-> 0]

\* a step of the report's date prompt while the data file does not exist
C11_MissingFileStep ==
    (pc = "report_date" /\ ~file_exists /\ DateAnswer(typed'))
        => /\ pc' = "menu"
           /\ ~file_exists' /\ file' = file
           /\ matched_records' = <<>> /\ totals' = ZeroTotals
           /\ printed' = <<NoDataFileMessage>>

(***************************************************************************)
(* C11: when the data file does not exist, a report whose date prompt was   *)
(* answered yields no record, prints the 'no data file' message, returns to *)
(* the menu and does not create the file.                                   *)
(***************************************************************************)
C11_MissingFileReport == [][C11_MissingFileStep]_vars

\* a report for 04/20/2025 has just run with no data file
C11_Witness ==
    /\ pc = "menu" /\ prev_pc = "report_date" /\ ~file_exists
    /\ requested_from = Date1 /\ printed = <<NoDataFileMessage>>

\* the line is a validation error at prompt p: blank, an unparseable date, a
\* non-numeric or negative number, a percent outside 0..100, an unknown choice
InvalidAt(p, s) ==
    LET b == Strip(s)
        x == FloatParse(b)
    IN  /\ ~EndToken(s)
        /\ CASE p \in {"from_date", "to_date"} -> b = <<>> \/ ~strptime(b)
             [] p = "report_date" -> b = <<>> \/ (~IsAll(b) /\ ~strptime(b))
             [] p = "name" -> b = <<>>
             [] p \in {"hours", "rate"} ->
                    b = <<>> \/ x = ValueError \/ FloatLt(x, Zero)
             [] p = "tax_rate" ->
                    b = <<>> \/ x = ValueError
                      \/ ~(FloatLe(Zero, x) /\ FloatLe(x, Hundred))
             [] p = "menu" -> Lower(b) \notin { <<"1">>, <<"2">>, <<"q">> }
             [] OTHER -> FALSE

\* a step on a validation error
C12_ErrorStep ==
    InvalidAt(pc, typed')
        => /\ pc' = pc
           /\ reader' = "none"
           /\ printed' # <<>>
           /\ file' = file /\ file_exists' = file_exists /\ writes' = writes
           /\ pc # "menu" => (entry' = entry /\ session_records' = session_records)

(***************************************************************************)
(* C12: a validation error at any prompt is recovered locally: the same     *)
(* prompt is asked again after a message, no quit confirmation is entered,  *)
(* the fields read so far are kept, and the session list and the data file  *)
(* do not change.                                                           *)
(***************************************************************************)
C12_ValidationRecovered == [][C12_ErrorStep]_vars

\* the hours prompt is asked again after -1, the name read before it kept
C12_Witness ==
    /\ pc = "hours" /\ prev_pc = "hours" /\ typed = <<"-","1">>
    /\ entry.name # <<>> /\ printed = <<Say("Hours must be non-negative.")>>

\* a step of one of the yes/no prompts
C13_YesNoStep ==
    /\ pc = "quit_confirm" =>
         /\ IsYes(typed') => pc' \in {"exit_confirm", "menu"}
         /\ IsNo(typed') => pc' = reader
    /\ pc \in {"exit_confirm", "q_confirm"} =>
         /\ IsYes(typed') => pc' = "exited"
         /\ IsNo(typed') => pc' = "menu"
    /\ pc = "add_another" =>
         /\ IsYes(typed') => pc' = "from_date"
         /\ IsNo(typed') => pc' = "menu"
         /\ pc' = "from_date" => IsYes(typed')

(***************************************************************************)
(* C13: every yes/no prompt, 'Add another employee?' included, takes 'y'    *)
(* and 'yes' as yes and 'n' and 'no' as no in any case; another round of    *)
(* entry starts exactly when the answer is yes.                             *)
(***************************************************************************)
C13_YesNoEverywhere == [][C13_YesNoStep]_vars

\* the text has the form mm/dd/yyyy (two digits, two digits, four digits) and
\* names a real calendar date
CanonicalDate(s) ==
    /\ Len(s) = 10
    /\ s[3] = "/" /\ s[6] = "/"
    /\ \A i \in {1, 2, 4, 5, 7, 8, 9, 10} : IsDigit(s[i])
    /\ LET m == DigitsVal(SubSeq(s, 1, 2))
           d == DigitsVal(SubSeq(s, 4, 5))
           y == DigitsVal(SubSeq(s, 7, 10))
       IN  m \in 1..12 /\ y >= 1 /\ d >= 1 /\ d <= DaysInMonth(y, m)

(***************************************************************************)
(* C14: the date reader returns only a text of the form mm/dd/yyyy naming a *)
(* real date, or the marker 'All' when the caller enabled the wildcard; so  *)
(* the from and to dates of a record under entry are of that form and never *)
(* the wildcard.                                                            *)
(***************************************************************************)
C14_DatesCanonical ==
    /\ entry.from_date # <<>> => CanonicalDate(entry.from_date)
    /\ entry.to_date # <<>> => CanonicalDate(entry.to_date)
    /\ requested_from # <<>> => (requested_from = All \/ CanonicalDate(requested_from))

Max2(a, b) == IF a > b THEN a ELSE b

\* z = x * y, x - y = z and x <= y on finite decimals, by integer arithmetic
IsProduct(z, x, y) ==
    /\ z.kind = "fin" /\ z.e <= x.e + y.e
    /\ z.n * Pow10(x.e + y.e - z.e) = x.n * y.n

IsDifference(z, x, y) ==
    LET e == Max2(z.e, Max2(x.e, y.e)) IN
    /\ z.kind = "fin"
    /\ z.n * Pow10(e - z.e) = x.n * Pow10(e - x.e) - y.n * Pow10(e - y.e)

AtMost(x, y) ==
    LET e == Max2(x.e, y.e) IN x.n * Pow10(e - x.e) <= y.n * Pow10(e - y.e)

\* the pay figures of a record are those of its hours, rate and tax rate
PayDerived(rec) ==
    /\ IsProduct(rec.gross, rec.hours, rec.rate)
    /\ IsProduct(rec.tax, rec.gross, rec.tax_rate)
    /\ IsDifference(rec.net, rec.gross, rec.tax)
    /\ rec.net.n >= 0
    /\ AtMost(rec.net, rec.gross)

\* hours 40, rate 20, tax 15 percent
IsExample(rec) ==
    /\ rec.hours = [kind |-> "fin", n |-> 40, e |-> 0]
    /\ rec.rate = [kind |-> "fin", n |-> 20, e |-> 0]
    /\ rec.tax_rate = [kind |-> "fin", n |-> 15, e |-> 2]

ExampleFigures(rec) ==
    /\ rec.gross = [kind |-> "fin", n |-> 800, e |-> 0]
    /\ rec.tax = [kind |-> "fin", n |-> 120, e |-> 0]
    /\ rec.net = [kind |-> "fin", n |-> 680, e |-> 0]

(***************************************************************************)
(* C15: for hours >= 0, rate >= 0 and a tax rate in [0,1], a record's gross *)
(* is hours*rate, its tax gross*tax_rate and its net gross - tax, with      *)
(* 0 <= net <= gross (40, 20, 15 percent give 800, 120, 680); this holds of *)
(* the record as entered and of the record as read back by a report.        *)
(***************************************************************************)
C15_PayDerivation ==
    /\ \A i \in DOMAIN session_records :
         /\ PayDerived(session_records[i])
         /\ IsExample(session_records[i]) => ExampleFigures(session_records[i])
    /\ \A i \in DOMAIN matched_records :
         /\ PayDerived(matched_records[i])
         /\ IsExample(matched_records[i]) => ExampleFigures(matched_records[i])
    /\ (ReportRan /\ requested_from = All) => Len(matched_records) = writes

\* the example record read back by a report
C15_Witness ==
    /\ ReportRan /\ matched_records # <<>>
    /\ IsExample(matched_records[1]) /\ ExampleFigures(matched_records[1])

\* the operator is entering employees: a field prompt of a round, the question
\* after it, or the quit question asked from a field prompt
EnteringEmployees ==
    \/ pc \in AddFields \cup {"add_another"}
    \/ pc = "quit_confirm" /\ reader \in AddFields

(***************************************************************************)
(* C16: an interrupt arriving while the operator is entering employees is   *)
(* handled as a quit request: the totals of the session's records are       *)
(* displayed and the process exits with success.                            *)
(***************************************************************************)
C16_InterruptStep ==
    (EnteringEmployees /\ typed' = CtrlC)
        => /\ pc' = "exited"
           /\ session_records # <<>> =>
                /\ printed' = <<Say("Session summary")>>
                /\ session_totals' = summarize_and_display_totals(session_records)

C16_InterruptQuits == [][C16_InterruptStep]_vars

IsPrefix(s, u) == Len(s) <= Len(u) /\ SubSeq(u, 1, Len(s)) = s

(***************************************************************************)
(* C17: the data file is append-only: every step leaves the file's earlier  *)
(* content as a prefix of its content and never removes the file; a report  *)
(* prompt's step and a quit confirmation's step leave it unchanged, so the  *)
(* records of a session ended by a confirmed quit stay in it.               *)
(***************************************************************************)
C17_AppendStep ==
    /\ IsPrefix(file, file')
    /\ file_exists => file_exists'
    /\ pc \in {"report_date", "quit_confirm", "exit_confirm", "q_confirm"}
         => (file' = file /\ file_exists' = file_exists)

C17_AppendOnly == [][C17_AppendStep]_vars

\* a session that stored a record and was then ended by a confirmed quit, with
\* that record as the last line of a file that already had lines
C17_Witness ==
    /\ pc = "exit_confirm" /\ prev_pc = "quit_confirm"
    /\ writes = 1 /\ session_totals.count = 0
    /\ Len(file) > 1 /\ WellFormed(file[Len(file)])

\* the six field prompts of a round, in the order the claim gives
RoundOrder == <<"from_date", "to_date", "name", "hours", "rate", "tax_rate">>

\* the field prompt the round is at, also while the quit question is asked
RoundPrompt == IF pc = "quit_confirm" THEN reader ELSE pc

FieldsEntered == { i \in 1..6 : entry[RoundOrder[i]] # NoEntry[RoundOrder[i]] }

\* at a field prompt exactly the fields before it have been entered
RoundInOrder ==
    \A i \in 1..6 :
        RoundPrompt = RoundOrder[i] => FieldsEntered = 1..(i - 1)

(***************************************************************************)
(* C18: in 'add employees' the file grows exactly when a round of the six   *)
(* field prompts completes in the order from date, to date, name, hours,    *)
(* rate, tax rate: the step that completes the round appends exactly one    *)
(* line and shows 'Add another employee?', that prompt is reached in no     *)
(* other way, and every other step (an abandoned round included) leaves     *)
(* the file as it is.                                                       *)
(***************************************************************************)
C18_RoundStep ==
    /\ RoundInOrder'
    /\ file' # file => (pc = "tax_rate" /\ pc' = "add_another")
    /\ pc' = "add_another" =>
         /\ pc = "tax_rate" /\ RoundInOrder
         /\ FieldsEntered' = 1..6
         /\ Len(file') = Len(file) + 1 /\ IsPrefix(file, file')
         /\ Split(file'[Len(file')], "|")[1] = entry'.from_date
         /\ Split(file'[Len(file')], "|")[2] = entry'.to_date

C18_LineOnFullRound == [][C18_RoundStep]_vars

\* a round just completed: the prompt after it is shown and the line is stored
C18_Witness ==
    /\ pc = "add_another" /\ prev_pc = "tax_rate" /\ writes = 1
    /\ FieldsEntered = 1..6 /\ Len(file) = 2

NonNegativeFinite(x) == x.kind = "fin" /\ x.n >= 0

FractionOfOne(x) == NonNegativeFinite(x) /\ x.n <= Pow10(x.e)

(***************************************************************************)
(* C19: every value the hours reader and the rate reader return is a        *)
(* non-negative finite number and every value the tax-rate reader returns   *)
(* is a finite fraction in [0,1], whatever line is typed, so no record is   *)
(* built from anything else.                                                *)
(***************************************************************************)
C19_ReadersFinite ==
    /\ entry.hours # NoFloat => NonNegativeFinite(entry.hours)
    /\ entry.rate # NoFloat => NonNegativeFinite(entry.rate)
    /\ entry.tax_rate # NoFloat => FractionOfOne(entry.tax_rate)
    /\ \A i \in DOMAIN session_records :
         /\ NonNegativeFinite(session_records[i].hours)
         /\ NonNegativeFinite(session_records[i].rate)
         /\ FractionOfOne(session_records[i].tax_rate)

SummaryShown == <<Say("Session summary")>>

\* the totals cover exactly the records recs
TotalsOf(tot, recs) ==
    /\ tot.count = Len(recs)
    /\ tot.total_hours = SumOf(recs, "hours")
    /\ tot.total_gross = SumOf(recs, "gross")
    /\ tot.total_tax = SumOf(recs, "tax")
    /\ tot.total_net = SumOf(recs, "net")

\* the step appends one record to the session list and its line to the file
AppendsRecord ==
    /\ Len(session_records') = Len(session_records) + 1
    /\ SubSeq(session_records', 1, Len(session_records)) = session_records
    /\ file' = Append(file, RecordLine(session_records'[Len(session_records')]))

(***************************************************************************)
(* C20: a session of 'add employees' starts with an empty session list,     *)
(* and the list grows exactly when the file does, by the record whose line  *)
(* is appended, so that it equals in order the records appended during the  *)
(* session.  The session summary is displayed only by the step that ends    *)
(* the session at 'Add another employee?' with at least one record, and     *)
(* its count and totals are those of the session list; a confirmed quit     *)
(* displays no summary and leaves the file as it is.                        *)
(***************************************************************************)
C20_SessionStep ==
    /\ (pc = "menu" /\ pc' = "from_date") => session_records' = <<>>
    /\ file' # file => AppendsRecord
    /\ (EnteringEmployees /\ file' = file /\ pc' \notin {"exit_confirm", "exited"})
         => session_records' = session_records
    /\ printed' = SummaryShown <=>
         (pc = "add_another" /\ pc' = "menu" /\ session_records # <<>>)
    /\ printed' = SummaryShown => TotalsOf(session_totals', session_records)
    /\ (pc = "quit_confirm" /\ IsYes(typed')) =>
         (printed' # SummaryShown /\ file' = file /\ session_totals' = session_totals)

=============================================================================
